---- MODULE Spec2Model ----
(***************************************************************************)
(* SimCLR contrastive batch scorer (SimCLR.info_nce_loss) of the           *)
(* self-supervised tutorial notebook, modelled as a state machine.         *)
(*                                                                         *)
(* A SimCLR object holds batch_size and temperature (set by __init__).     *)
(* The caller hands a features tensor (M rows of dimension Dim) to         *)
(* info_nce_loss, which either returns (logits, labels) or raises.         *)
(*                                                                         *)
(* Numbers.  Tensor entries are real numbers; they are modelled exactly    *)
(* as fractions <<n, d>> in lowest terms with d > 0.  A zero denominator   *)
(* encodes the IEEE results of a division by zero: <<1,0>> is +inf,        *)
(* <<-1,0>> is -inf and <<0,0>> is nan.  Rounding is not modelled.         *)
(* Embedding vectors are drawn from vectors whose Euclidean norm is an     *)
(* integer, so that the normalised vectors are fractions.                  *)
(*                                                                         *)
(* Indices.  Sequences are 1-based; the ghost fields r and c of a         *)
(* similarity entry carry the 0-based row and column of the similarity     *)
(* matrix the value was computed at, as the source indexes them.           *)
(***************************************************************************)
EXTENDS Integers, Sequences, FiniteSets, TLC

VARIABLES
    batch_size,   \* self.batch_size, set by __init__
    temperature,  \* self.temperature, set by __init__, a fraction
    pc,           \* "idle" between calls, "returned" after a call
    features,     \* the argument of the call: rows of embedding vectors
    status,       \* "ok", or the exception the call raised
    logits,       \* the logits returned: rows of entries [v, r, c]
    labels,       \* the labels returned
    ran,          \* the statements of info_nce_loss that ran, in order
    given,        \* ghost: the caller's tensor as it was when passed
    earlier,      \* ghost: <<>>, or <<record of a call>>, or, once a call
                  \* has returned after the recorded one, <<record, "later">>
    epochs,       \* self.epochs
    dataset_size, \* len(train_loader.dataset)
    tpc,          \* position of SimCLR.train ("off": train is not running)
    epoch_counter,
    n_iter,
    remaining,    \* samples the loader has not yet yielded in this epoch
    images,       \* the concatenated batch: entries [sample, view]
    loss,         \* the local loss of train: <<>> while unbound, else <<value>>
    loss_sum,     \* ghost: sum of the losses of this epoch's batches
    n_batches,    \* ghost: batches processed in this epoch
    sched_steps,  \* number of calls of self.scheduler.step()
    printed,      \* the 'Average loss' last printed: <<>> or <<fraction>>
    tlog,         \* ghost: the statements of the last training iteration
    dataset,      \* prepare_data_features: the labels of the dataset's samples,
                  \* in dataset order (sample k is the image k)
    batchsize,    \* prepare_data_features: the batchsize argument
    fpc,          \* position of prepare_data_features ("off": not running)
    yielded,      \* number of samples data_loader has yielded
    feats,        \* the local feats: the list of batch_feats, then the tensor
    labs,         \* the local labels: the list of batch_labels, then the tensor
    result        \* the [feats, labels] pair returned

(* The state of the scorer and of its caller. *)
scorer_vars == <<batch_size, temperature, pc, features, status, logits, labels, ran>>

(* The ghost record of calls. *)
call_vars == <<given, earlier>>

(* The state of SimCLR.train. *)
train_vars ==
    <<epochs, dataset_size, tpc, epoch_counter, n_iter, remaining, images, loss,
      loss_sum, n_batches, sched_steps, printed, tlog>>

(* The state of prepare_data_features. *)
feat_vars == <<dataset, batchsize, fpc, yielded, feats, labs, result>>

vars == <<scorer_vars, call_vars, train_vars, feat_vars>>

(* ------------------------------ bounds -------------------------------- *)

MaxBatch == 3

MaxRows == 6

(* Embedding vectors of dimension 2 with integer norm: a unit vector, a   *)
(* vector of norm 5 and the zero vector.                                 *)
Vecs == {<<1, 0>>, <<3, 4>>, <<0, 0>>}

(* Temperatures: negative, zero, 1/2 and 1. *)
Temps == {<<-1, 1>>, <<0, 1>>, <<1, 2>>, <<1, 1>>}

(* The batch of the worked example: view A and view B of two samples,    *)
(* identical per sample.                                                  *)
WorkedExample == <<<<1, 0>>, <<0, 1>>, <<1, 0>>, <<0, 1>>>>

(* The feature tensors a caller may pass: 1..MaxRows rows of Vecs, and   *)
(* the worked example.                                                    *)
Batches == UNION {[1..m -> Vecs] : m \in 1..MaxRows} \cup {WorkedExample}

NoValue == <<>>

(* --------------------------- real numbers ----------------------------- *)

Abs(x) == IF x < 0 THEN -x ELSE x

Sign(x) == IF x < 0 THEN -1 ELSE IF x = 0 THEN 0 ELSE 1

RECURSIVE Gcd(_, _)
Gcd(a, b) == IF b = 0 THEN a ELSE Gcd(b, a % b)

(* n/d in lowest terms; d = 0 gives inf, -inf or nan. *)
Frac(n, d) ==
    IF d = 0 THEN <<Sign(n), 0>>
    ELSE LET g == Gcd(Abs(n), Abs(d))
         IN  <<(Sign(d) * n) \div g, Abs(d) \div g>>

Zero == <<0, 1>>

RAdd(a, b) == Frac(a[1] * b[2] + b[1] * a[2], a[2] * b[2])

RMul(a, b) == Frac(a[1] * b[1], a[2] * b[2])

RDiv(a, b) == Frac(a[1] * b[2], a[2] * b[1])

RPositive(a) == a[1] > 0 /\ a[2] > 0

(* The integer n with n*n = v . v (every vector of Vecs has one). *)
Norm(v) ==
    LET sq == v[1] * v[1] + v[2] * v[2]
    IN  CHOOSE n \in 0..sq : n * n = sq

(* --------------------------- tensor operations ------------------------ *)

(* torch.arange(n): 0, 1, ..., n-1. *)
Arange(n) == [k \in 1..n |-> k - 1]

(* torch.cat([a, b], dim=0) of two 1-D tensors. *)
Cat0(a, b) == a \o b

(* labels.unsqueeze(0) == labels.unsqueeze(1), as float: entry (i,j) is 1 *)
(* iff lab[i] = lab[j].                                                   *)
OuterEq(lab) ==
    [i \in 1..Len(lab) |-> [j \in 1..Len(lab) |-> IF lab[i] = lab[j] THEN 1 ELSE 0]]

(* Variant: the diagonal is never marked, so nothing is discarded. *)
EyeEmpty(n) == [i \in 1..n |-> [j \in 1..n |-> FALSE]]

(* torch.eye(n, dtype=bool). *)
Eye(n) == [i \in 1..n |-> [j \in 1..n |-> i = j]]

(* Variant: the negation is forgotten. *)
NotForgotten(mask) == mask

(* ~mask *)
Not(mask) == [i \in 1..Len(mask) |-> [j \in 1..Len(mask[i]) |-> ~mask[i][j]]]

(* t.bool() of a float tensor: nonzero is True. *)
Bool(t) == [i \in 1..Len(t) |-> [j \in 1..Len(t[i]) |-> t[i][j] # 0]]

(* t.shape of a 2-D tensor with at least one row. *)
Shape(t) == <<Len(t), Len(t[1])>>

(* Row-major flattening of a 2-D tensor. *)
RECURSIVE Flatten(_)
Flatten(t) == IF t = <<>> THEN <<>> ELSE Head(t) \o Flatten(Tail(t))

(* Variant: a mask smaller than the tensor is accepted. *)
MaskFitsSmaller(t, mask) == Len(mask) <= Len(t) /\ Len(mask[1]) <= Len(t[1])

(* t[mask] is legal only when the mask has the shape of the tensor;      *)
(* otherwise indexing raises IndexError.                                  *)
MaskFits(t, mask) == Shape(t) = Shape(mask)

(* t[mask]: the entries of t at the positions where mask is True, in     *)
(* row-major order.                                                       *)
MaskedSelect(t, mask) ==
    LET at  == Flatten([i \in 1..Len(mask) |-> [j \in 1..Len(mask[i]) |-> <<i, j>>]])
        idx == SelectSeq(at, LAMBDA p : mask[p[1]][p[2]])
    IN  [k \in 1..Len(idx) |-> t[idx[k][1]][idx[k][2]]]

(* Variant: an empty tensor cannot be viewed with an inferred dimension. *)
ViewFitsNonEmpty(flat, rows) == rows > 0 /\ Len(flat) > 0 /\ Len(flat) % rows = 0

(* flat.view(rows, -1) is legal when rows > 0 and divides the number of  *)
(* elements (an empty tensor gives rows x 0); otherwise RuntimeError.     *)
ViewFits(flat, rows) == rows > 0 /\ Len(flat) % rows = 0

(* flat.view(rows, -1) *)
View(flat, rows) ==
    LET cols == Len(flat) \div rows
    IN  [i \in 1..rows |-> [j \in 1..cols |-> flat[(i - 1) * cols + j]]]

(* Variant: the operands are concatenated in the other order. *)
Cat1Swapped(a, b) == [i \in 1..Len(a) |-> b[i] \o a[i]]

(* torch.cat([a, b], dim=1) of two 2-D tensors with the same row count. *)
Cat1(a, b) == [i \in 1..Len(a) |-> a[i] \o b[i]]

(* Variant: the labels are the row indices. *)
ZerosAsArange(n) == [k \in 1..n |-> k - 1]

(* torch.zeros(n, dtype=long) *)
Zeros(n) == [k \in 1..n |-> 0]

(* F.normalize(features, dim=1): every row v becomes v / max(|v|, eps);  *)
(* the zero vector stays the zero vector (0 / eps = 0).                   *)
Normalize(f) ==
    [i \in 1..Len(f) |->
        [k \in 1..Len(f[i]) |->
            IF Norm(f[i]) = 0 THEN Zero ELSE Frac(f[i][k], Norm(f[i]))]]

(* Dot product of two rows of fractions. *)
RECURSIVE Dot(_, _)
Dot(x, y) ==
    IF x = <<>> THEN Zero
    ELSE RAdd(RMul(Head(x), Head(y)), Dot(Tail(x), Tail(y)))

(* Variant: only the upper triangle (j >= i) is computed, the rest is 0. *)
SimilarityMatrixUpper(nf) ==
    [i \in 1..Len(nf) |->
        [j \in 1..Len(nf) |->
            [v |-> IF j >= i THEN Dot(nf[i], nf[j]) ELSE Zero, r |-> i - 1, c |-> j - 1]]]

(* torch.matmul(features, features.T); r and c are the ghost position. *)
SimilarityMatrix(nf) ==
    [i \in 1..Len(nf) |->
        [j \in 1..Len(nf) |-> [v |-> Dot(nf[i], nf[j]), r |-> i - 1, c |-> j - 1]]]

(* Variant: the logits are multiplied by the temperature. *)
DivideByAsProduct(t, temp) ==
    [i \in 1..Len(t) |->
        [j \in 1..Len(t[i]) |-> [t[i][j] EXCEPT !.v = RMul(t[i][j].v, temp)]]]

(* logits / self.temperature, entrywise. *)
DivideBy(t, temp) ==
    [i \in 1..Len(t) |->
        [j \in 1..Len(t[i]) |-> [t[i][j] EXCEPT !.v = RDiv(t[i][j].v, temp)]]]

(* ------------------------- SimCLR.info_nce_loss ----------------------- *)

(* Variant: the two views of a sample are taken to be adjacent rows      *)
(* (labels 0,0,1,1,...) instead of bs rows apart.                         *)
LabelMatrixInterleaved(bs) == OuterEq([k \in 1..(2 * bs) |-> (k - 1) \div 2])

(* The label mask before the diagonal is discarded (lines 358-360). *)
LabelMatrix(bs) == OuterEq(Cat0(Arange(bs), Arange(bs)))

(* labels[~mask].view(labels.shape[0], -1) with mask the identity: the   *)
(* square tensor t without its main diagonal (lines 368-370).             *)
DiscardDiagonal(t) == View(MaskedSelect(t, Not(Eye(Len(t)))), Len(t))

AllSteps ==
    <<"labels", "normalize", "matmul", "mask_labels", "mask_similarity",
      "positives", "negatives", "cat", "zeros", "divide">>

Raised(kind, done) ==
    [status |-> kind, logits |-> NoValue, labels |-> NoValue,
     ran |-> SubSeq(AllSteps, 1, done)]

(* The whole of info_nce_loss on self.batch_size = bs,                    *)
(* self.temperature = temp and the argument f: the value returned or the  *)
(* exception raised, and the steps that ran before it.  A boolean index   *)
(* of the wrong shape raises IndexError, a view that does not fit raises  *)
(* RuntimeError; the code has no other check.                             *)
InfoNceLoss(bs, temp, f) ==
    LET lab0  == LabelMatrix(bs)
        nf    == Normalize(f)
        sim0  == SimilarityMatrix(nf)
        mask  == Eye(Len(lab0))
        lflat == MaskedSelect(lab0, Not(mask))
        lab1  == View(lflat, Len(lab0))
        sflat == MaskedSelect(sim0, Not(mask))
        sim1  == View(sflat, Len(sim0))
        pflat == MaskedSelect(sim1, Bool(lab1))
        pos   == View(pflat, Len(lab1))
        nflat == MaskedSelect(sim1, Not(Bool(lab1)))
        neg   == View(nflat, Len(sim1))
        lg    == Cat1(pos, neg)
        lb    == Zeros(Len(lg))
    IN  IF ~MaskFits(lab0, Not(mask)) THEN Raised("IndexError", 3)
        ELSE IF ~ViewFits(lflat, Len(lab0)) THEN Raised("RuntimeError", 3)
        ELSE IF ~MaskFits(sim0, Not(mask)) THEN Raised("IndexError", 4)
        ELSE IF ~ViewFits(sflat, Len(sim0)) THEN Raised("RuntimeError", 4)
        ELSE IF ~MaskFits(sim1, Bool(lab1)) THEN Raised("IndexError", 5)
        ELSE IF ~ViewFits(pflat, Len(lab1)) THEN Raised("RuntimeError", 5)
        ELSE IF ~ViewFits(nflat, Len(sim1)) THEN Raised("RuntimeError", 6)
        ELSE IF Len(pos) # Len(neg) THEN Raised("RuntimeError", 7)
        ELSE [status |-> "ok", logits |-> DivideBy(lg, temp), labels |-> lb,
              ran |-> AllSteps]

(* ------------------------------ actions ------------------------------- *)

(* No call is recorded. *)
NoCalls == given = NoValue /\ earlier = <<>>

(* SimCLR.train is not running. *)
TrainOff ==
    /\ epochs = 0
    /\ dataset_size = 0
    /\ tpc = "off"
    /\ epoch_counter = 0
    /\ n_iter = 0
    /\ remaining = {}
    /\ images = <<>>
    /\ loss = <<>>
    /\ loss_sum = 0
    /\ n_batches = 0
    /\ sched_steps = 0
    /\ printed = <<>>
    /\ tlog = <<>>

(* prepare_data_features is not running. *)
FeaturesOff ==
    /\ dataset = <<>>
    /\ batchsize = 0
    /\ fpc = "off"
    /\ yielded = 0
    /\ feats = <<>>
    /\ labs = <<>>
    /\ result = NoValue

(* SimCLR.__init__ stores batch_size and temperature as given. *)
Init ==
    /\ batch_size \in 1..MaxBatch
    /\ temperature \in Temps
    /\ pc = "idle"
    /\ features = NoValue
    /\ status = "none"
    /\ logits = NoValue
    /\ labels = NoValue
    /\ ran = <<>>
    /\ NoCalls
    /\ TrainOff
    /\ FeaturesOff

(* Variant: the call stores the N of the batch it was given on self. *)
CallStoresBatchSize(f) ==
    /\ pc = "idle"
    /\ \E out \in {InfoNceLoss(batch_size, temperature, f)} :
           /\ features' = f
           /\ status' = out.status
           /\ logits' = out.logits
           /\ labels' = out.labels
           /\ ran' = out.ran
    /\ pc' = "returned"
    /\ batch_size' = IF Len(f) >= 2 THEN Len(f) \div 2 ELSE batch_size
    /\ UNCHANGED temperature

(* Variant: the call anneals self.temperature from 1 to 1/2. *)
CallAnnealsTemperature(f) ==
    /\ pc = "idle"
    /\ \E out \in {InfoNceLoss(batch_size, temperature, f)} :
           /\ features' = f
           /\ status' = out.status
           /\ logits' = out.logits
           /\ labels' = out.labels
           /\ ran' = out.ran
    /\ pc' = "returned"
    /\ temperature' = IF temperature = <<1, 1>> THEN <<1, 2>> ELSE temperature
    /\ UNCHANGED batch_size

(* logits, labels = self.info_nce_loss(features) *)
Call(f) ==
    /\ pc = "idle"
    /\ \E out \in {InfoNceLoss(batch_size, temperature, f)} :
           /\ features' = f
           /\ status' = out.status
           /\ logits' = out.logits
           /\ labels' = out.labels
           /\ ran' = out.ran
    /\ pc' = "returned"
    /\ UNCHANGED <<batch_size, temperature>>

(* The caller is done with the batch: features, logits and labels are    *)
(* locals of the training iteration and are dropped before the next one. *)
NextBatch ==
    /\ pc = "returned"
    /\ pc' = "idle"
    /\ features' = NoValue
    /\ status' = "none"
    /\ logits' = NoValue
    /\ labels' = NoValue
    /\ ran' = <<>>
    /\ UNCHANGED <<batch_size, temperature>>

(* The scorer called on any batch, one batch after another. *)
ScoreBatch(f) == Call(f) /\ UNCHANGED <<call_vars, train_vars, feat_vars>>

DropBatch == NextBatch /\ UNCHANGED <<call_vars, train_vars, feat_vars>>

Next == (\E f \in Batches : ScoreBatch(f)) \/ DropBatch

Spec == Init /\ [][Next]_vars

(* ------------------- repeated calls on one object --------------------- *)

MaxPairRows == 4

(* Embedding vectors of the batches used for pairs of calls. *)
PairVecs == {<<1, 0>>, <<3, 4>>}

(* The batches used for pairs of calls: 1..MaxPairRows rows. *)
PairBatches == UNION {[1..m -> PairVecs] : m \in 1..MaxPairRows}

(* What a call leaves to compare a later call with. *)
CallRecord(f, temp, st, lg, lb) ==
    [features |-> f, temperature |-> temp, status |-> st, logits |-> lg, labels |-> lb]

(* A call of info_nce_loss; the ghost variables keep the tensor as it was *)
(* passed; while no call is recorded the call may become the recorded     *)
(* one, and a call after the recorded one is marked as later.             *)
RecordedCall(f) ==
    /\ Call(f)
    /\ given' = f
    /\ \/ /\ earlier = <<>>
          /\ earlier' = <<>>
       \/ /\ earlier = <<>>
          /\ earlier' = <<CallRecord(f, temperature, status', logits', labels')>>
       \/ /\ earlier # <<>>
          /\ earlier' = <<earlier[1], "later">>
    /\ UNCHANGED <<train_vars, feat_vars>>

(* The caller drops the batch; what was recorded stays. *)
RecordedNextBatch ==
    /\ NextBatch
    /\ given' = NoValue
    /\ UNCHANGED <<earlier, train_vars, feat_vars>>

NextCalls == (\E f \in PairBatches : RecordedCall(f)) \/ RecordedNextBatch

SpecCalls == Init /\ [][NextCalls]_vars

(* ---------------------------- SimCLR.train ---------------------------- *)

MaxTrainBatch == 2

MaxEpochs == 6

MaxData == 3

(* if epoch_counter >= 5: self.scheduler.step() *)
WarmupEpochs == 5

(* temperature=0.07 *)
NotebookTemperature == <<7, 100>>

(* The values the cross-entropy of a batch may take: the criterion is an  *)
(* external function of the logits and is not computed.                   *)
Losses == {1, 2}

(* ContrastiveTransformations.__call__: two views of the same image. *)
TwoViews(sample) == <<[sample |-> sample, view |-> 1], [sample |-> sample, view |-> 2]>>

(* The loader's collation of a batch of samples (in the order drawn):    *)
(* the list of the stacked first views and the stacked second views.      *)
Collate(batch) ==
    <<[k \in 1..Len(batch) |-> TwoViews(batch[k])[1]],
      [k \in 1..Len(batch) |-> TwoViews(batch[k])[2]]>>

(* Variant: the two views of each sample are put next to each other. *)
CatViewsInterleaved(imgs) ==
    [k \in 1..(2 * Len(imgs[1])) |-> imgs[2 - (k % 2)][(k + 1) \div 2]]

(* images = torch.cat(images, dim=0) *)
CatViews(imgs) == imgs[1] \o imgs[2]

(* self.model(images): one embedding per image.  The network is external; *)
(* a fixed encoder stands for it.                                         *)
Encode(img) == IF img.sample % 2 = 1 THEN <<1, 0>> ELSE <<3, 4>>

Model(imgs) == [k \in 1..Len(imgs) |-> Encode(imgs[k])]

(* Variant: drop_last=False, a short final batch is yielded. *)
BatchLenKeepLast(rem, k) == IF Cardinality(rem) >= k THEN k ELSE Cardinality(rem)

(* The number of samples of the loader's next batch, 0 when the epoch is  *)
(* exhausted: batch_size=bs, drop_last=True drops a short final batch.     *)
BatchLen(rem, k) == IF Cardinality(rem) >= k THEN k ELSE 0

(* The batches a shuffling loader may draw next: k distinct samples of   *)
(* those not yet drawn in this epoch, in any order.                       *)
Draws(rem, k) == {b \in [1..k -> rem] : \A i \in 1..k : \A j \in 1..k : b[i] = b[j] => i = j}

(* Variant: the gradients are zeroed after the backward pass. *)
IterationStepsZeroGradLate ==
    <<"cat", "to_device", "model", "info_nce_loss", "criterion", "backward",
      "zero_grad", "step", "update", "n_iter">>

(* The statements of one iteration of the batch loop, in program order    *)
(* (lines 393-409): "step" is scaler.step(self.optimizer), "update" is    *)
(* scaler.update().                                                        *)
IterationSteps ==
    <<"cat", "to_device", "model", "info_nce_loss", "criterion", "zero_grad",
      "backward", "step", "update", "n_iter">>

(* An object constructed as in the notebook, and train about to run. *)
TrainInit ==
    /\ batch_size \in 1..MaxTrainBatch
    /\ temperature = NotebookTemperature
    /\ pc = "idle"
    /\ features = NoValue
    /\ status = "none"
    /\ logits = NoValue
    /\ labels = NoValue
    /\ ran = <<>>
    /\ NoCalls
    /\ epochs \in 0..MaxEpochs
    /\ dataset_size \in 1..MaxData
    /\ tpc = "init"
    /\ epoch_counter = 0
    /\ n_iter = 0
    /\ remaining = {}
    /\ images = <<>>
    /\ loss = <<>>
    /\ loss_sum = 0
    /\ n_batches = 0
    /\ sched_steps = 0
    /\ printed = <<>>
    /\ tlog = <<>>
    /\ FeaturesOff

(* scaler = GradScaler(); n_iter = 0; print("Start SimCLR training ...") *)
StartTraining ==
    /\ tpc = "init"
    /\ tpc' = "epoch"
    /\ n_iter' = 0
    /\ UNCHANGED <<scorer_vars, call_vars, feat_vars, epochs, dataset_size, epoch_counter,
                   remaining, images, loss, loss_sum, n_batches, sched_steps,
                   printed, tlog>>

(* for epoch_counter in range(self.epochs): the loader starts an epoch. *)
BeginEpoch ==
    /\ tpc = "epoch"
    /\ epoch_counter < epochs
    /\ tpc' = "batches"
    /\ remaining' = 1..dataset_size
    /\ loss_sum' = 0
    /\ n_batches' = 0
    /\ UNCHANGED <<scorer_vars, call_vars, feat_vars, epochs, dataset_size, epoch_counter,
                   n_iter, images, loss, sched_steps, printed, tlog>>

(* One iteration of the batch loop (lines 392-409) on the batch drawn,   *)
(* the criterion giving l.  An exception of info_nce_loss ends train.     *)
TrainBatch(batch, l) ==
    /\ tpc = "batches"
    /\ BatchLen(remaining, batch_size) > 0
    /\ batch \in Draws(remaining, BatchLen(remaining, batch_size))
    /\ remaining' = remaining \ {batch[k] : k \in 1..Len(batch)}
    /\ images' = CatViews(Collate(batch))
    /\ features' = Model(images')
    /\ \E out \in {InfoNceLoss(batch_size, temperature, features')} :
           /\ status' = out.status
           /\ logits' = out.logits
           /\ labels' = out.labels
           /\ ran' = out.ran
           /\ IF out.status = "ok"
              THEN /\ loss' = <<l>>
                   /\ loss_sum' = loss_sum + l
                   /\ n_batches' = n_batches + 1
                   /\ n_iter' = n_iter + 1
                   /\ tlog' = IterationSteps
                   /\ tpc' = "batches"
              ELSE /\ tlog' = SubSeq(IterationSteps, 1, 4)
                   /\ tpc' = "raised in info_nce_loss"
                   /\ UNCHANGED <<loss, loss_sum, n_batches, n_iter>>
    /\ pc' = "returned"
    /\ UNCHANGED <<batch_size, temperature, call_vars, feat_vars, epochs, dataset_size,
                   epoch_counter, sched_steps, printed>>

(* The loader is exhausted (no next batch): the scheduler is stepped      *)
(* after the warmup and the epoch's line is printed (lines 411-415).      *)
(* loss is unbound if no batch ever ran.                                  *)
EndEpoch ==
    /\ tpc = "batches"
    /\ BatchLen(remaining, batch_size) = 0
    /\ sched_steps' = IF epoch_counter >= WarmupEpochs THEN sched_steps + 1 ELSE sched_steps
    /\ IF loss = <<>>
       THEN /\ tpc' = "raised UnboundLocalError"
            /\ UNCHANGED <<printed, epoch_counter>>
       ELSE /\ printed' = <<Frac(loss[1], dataset_size)>>
            /\ epoch_counter' = epoch_counter + 1
            /\ tpc' = "epoch"
    /\ UNCHANGED <<scorer_vars, call_vars, feat_vars, epochs, dataset_size, n_iter, remaining,
                   images, loss, loss_sum, n_batches, tlog>>

(* print("Training has finished.") *)
FinishTraining ==
    /\ tpc = "epoch"
    /\ epoch_counter >= epochs
    /\ tpc' = "finished"
    /\ UNCHANGED <<scorer_vars, call_vars, feat_vars, epochs, dataset_size, epoch_counter,
                   n_iter, remaining, images, loss, loss_sum, n_batches,
                   sched_steps, printed, tlog>>

NextTrain ==
    \/ StartTraining
    \/ BeginEpoch
    \/ \E l \in Losses : \E batch \in Draws(remaining, BatchLen(remaining, batch_size)) :
           TrainBatch(batch, l)
    \/ EndEpoch
    \/ FinishTraining

SpecTrain == TrainInit /\ [][NextTrain]_vars

(* ----------------------- prepare_data_features ------------------------ *)

MaxSamples == 3

(* The class labels of the samples. *)
Classes == {0, 1, 2}

(* The datasets: up to MaxSamples labelled images. *)
Datasets == UNION {[1..n -> Classes] : n \in 0..MaxSamples}

(* network(batch_imgs) for one image: the encoder with fc = Identity is   *)
(* external; a fixed injective encoder stands for it.                     *)
Network(img) == <<img, 1>>

(* Variant: drop_last=True, a short final batch is dropped. *)
LoaderLenDropLast(left, k) == IF left >= k THEN k ELSE 0

(* The number of samples of data_loader's next batch when `left` samples  *)
(* are left, 0 when it is exhausted: batch_size=batchsize,                *)
(* drop_last=False yields a short final batch.                            *)
LoaderLen(left, k) == IF left >= k THEN k ELSE left

(* torch.cat(ts, dim=0) of a non-empty list of tensors. *)
RECURSIVE CatAll(_)
CatAll(ts) == IF ts = <<>> THEN <<>> ELSE Head(ts) \o CatAll(Tail(ts))

(* t[idxs]: the rows of t picked by an index tensor. *)
Index(t, idxs) == [i \in 1..Len(idxs) |-> t[idxs[i]]]

(* The index tensors labels.sort() may return: a permutation that puts    *)
(* the labels in non-decreasing order.  The sort is not stable: the order *)
(* of equal labels is not fixed.                                           *)
SortIndices(lab) ==
    {idxs \in [1..Len(lab) -> 1..Len(lab)] :
        /\ \A i \in 1..Len(lab) : \A j \in 1..Len(lab) : idxs[i] = idxs[j] => i = j
        /\ \A i \in 1..(Len(lab) - 1) : lab[idxs[i]] <= lab[idxs[i + 1]]}

(* prepare_data_features is called: the loader is built, the lists are    *)
(* empty.  The SimCLR object is the notebook's and is not used.           *)
FeaturesInit ==
    /\ batch_size = 1
    /\ temperature = NotebookTemperature
    /\ pc = "idle"
    /\ features = NoValue
    /\ status = "none"
    /\ logits = NoValue
    /\ labels = NoValue
    /\ ran = <<>>
    /\ NoCalls
    /\ TrainOff
    /\ dataset \in Datasets
    /\ batchsize \in 1..MaxBatch
    /\ fpc = "loop"
    /\ yielded = 0
    /\ feats = <<>>
    /\ labs = <<>>
    /\ result = NoValue

(* One iteration of the loop of lines 572-576: the next batch of the      *)
(* loader (shuffle=False: in dataset order) is encoded and appended.      *)
EncodeBatch ==
    /\ fpc = "loop"
    /\ LoaderLen(Len(dataset) - yielded, batchsize) > 0
    /\ LET n == LoaderLen(Len(dataset) - yielded, batchsize)
       IN  /\ feats' = Append(feats, [k \in 1..n |-> Network(yielded + k)])
           /\ labs' = Append(labs, [k \in 1..n |-> dataset[yielded + k]])
           /\ yielded' = yielded + n
    /\ UNCHANGED <<scorer_vars, call_vars, train_vars, dataset, batchsize, fpc, result>>

(* The loader is exhausted: the lists are concatenated (torch.cat raises  *)
(* on an empty list), the labels sorted, the features permuted alike,     *)
(* and both returned (lines 578-585).                                     *)
SortAndReturn ==
    /\ fpc = "loop"
    /\ LoaderLen(Len(dataset) - yielded, batchsize) = 0
    /\ IF feats = <<>>
       THEN /\ fpc' = "raised RuntimeError"
            /\ UNCHANGED <<feats, labs, result>>
       ELSE \E idxs \in SortIndices(CatAll(labs)) :
                /\ labs' = Index(CatAll(labs), idxs)
                /\ feats' = Index(CatAll(feats), idxs)
                /\ result' = [feats |-> feats', labels |-> labs']
                /\ fpc' = "done"
    /\ UNCHANGED <<scorer_vars, call_vars, train_vars, dataset, batchsize, yielded>>

NextFeatures == EncodeBatch \/ SortAndReturn

SpecFeatures == FeaturesInit /\ [][NextFeatures]_vars

(* ------------------- notions the properties refer to ------------------ *)

(* sim(z_i, z_j) = z_i . z_j / (|z_i| |z_j|), the cosine similarity of   *)
(* two embedding vectors, computed on the raw vectors; as in             *)
(* torch's cosine_similarity a zero norm is clamped to eps, which makes  *)
(* the similarity with the zero vector 0.                                 *)
CosineSimilarity(x, y) ==
    IF Norm(x) = 0 \/ Norm(y) = 0 THEN Zero
    ELSE Frac(x[1] * y[1] + x[2] * y[2], Norm(x) * Norm(y))

(* Number of embeddings of the call, and the N of a batch of 2N. *)
M == Len(features)

HalfN == M \div 2

(* The positive partner of 0-based index i in a batch of 2n embeddings. *)
Partner(i, n) == IF i < n THEN i + n ELSE i - n

(* The call has returned or raised. *)
Returned == pc = "returned"

(* The call was made on a valid batch: 2N embeddings with N >= 2, and    *)
(* temperature > 0.                                                       *)
ValidCall == Returned /\ M % 2 = 0 /\ HalfN >= 2 /\ RPositive(temperature)

(* No embedding of the call is the zero vector. *)
NonZeroBatch == \A i \in 1..M : Norm(features[i]) > 0

(* The call returned a (logits, labels) pair. *)
Ok == Returned /\ status = "ok"

(* The call raised an exception and returned nothing. *)
Failed == Returned /\ status # "ok" /\ logits = NoValue /\ labels = NoValue

(* The malformed-batch error of the scorer: the IndexError torch raises  *)
(* when the 2*batch_size square mask indexes a similarity matrix of      *)
(* another size (line 370).                                               *)
InvalidBatch == "IndexError"

(* ------------------------------- C1 ----------------------------------- *)

(* C1: for every anchor row i of a valid batch, entry 0 of the returned   *)
(* logits row i is the similarity of embedding i and its positive         *)
(* partner (i+N if i < N, else i-N) divided by temperature; it equals     *)
(* cosine_similarity(embedding[i], embedding[partner]) / temperature.     *)
C1_PositiveFirst ==
    (ValidCall /\ Ok) =>
        \A i \in 0..(M - 1) :
            LET p == Partner(i, HalfN)
            IN  logits[i + 1][1] =
                    [v |-> RDiv(CosineSimilarity(features[i + 1], features[p + 1]),
                                temperature),
                     r |-> i, c |-> p]

C1_Witness ==
    /\ ValidCall /\ Ok /\ M = 6
    /\ features[1] = <<1, 0>> /\ features[4] = <<3, 4>>
    /\ temperature = <<1, 2>>
    /\ logits[1][1] = [v |-> <<6, 5>>, r |-> 0, c |-> 3]
    /\ logits[4][1] = [v |-> <<6, 5>>, r |-> 3, c |-> 0]

(* ------------------------------- C2 ----------------------------------- *)

(* C2: for every valid batch the returned labels are the constant zero    *)
(* sequence of length 2N.                                                  *)
C2_LabelsAllZero ==
    (ValidCall /\ Ok) =>
        /\ Len(labels) = 2 * HalfN
        /\ \A k \in 1..Len(labels) : labels[k] = 0

C2_Witness == ValidCall /\ Ok /\ M = 6 /\ labels = <<0, 0, 0, 0, 0, 0>>

(* ------------------------------- C3 ----------------------------------- *)

(* C3: for every valid batch of 2N embeddings the returned logits have    *)
(* exactly 2N rows and every row has exactly 2N-1 entries.                 *)
C3_LogitsShape ==
    (ValidCall /\ Ok) =>
        /\ Len(logits) = 2 * HalfN
        /\ \A i \in 1..Len(logits) : Len(logits[i]) = 2 * HalfN - 1

C3_Witness ==
    ValidCall /\ Ok /\ HalfN = 3 /\ Len(logits) = 6 /\ Len(logits[6]) = 5

(* ------------------------------- C4 ----------------------------------- *)

(* C4: self-exclusion: for every anchor row i of a valid batch every      *)
(* entry of logits row i comes from row i and a column j # i of the       *)
(* similarity matrix, never from the diagonal entry sim(i,i).              *)
C4_SelfExclusion ==
    (ValidCall /\ Ok) =>
        \A i \in 1..Len(logits) : \A k \in 1..Len(logits[i]) :
            /\ logits[i][k].r = i - 1
            /\ logits[i][k].c # i - 1
            /\ logits[i][k].c \in 0..(M - 1)

(* A row holds the value of a self-similarity (1/temperature) that comes  *)
(* from another column: embedding 1 equals embedding 0.                    *)
C4_Witness ==
    /\ ValidCall /\ Ok /\ M = 4
    /\ features[1] = <<3, 4>> /\ features[2] = <<3, 4>>
    /\ logits[1][2].v = RDiv(<<1, 1>>, temperature)
    /\ logits[1][2].c = 1

(* ------------------------------- C5 ----------------------------------- *)

(* The columns other than i and partner(i), in increasing order. *)
NegativeColumns(i) ==
    SelectSeq([k \in 1..M |-> k - 1], LAMBDA j : j # i /\ j # Partner(i, HalfN))

(* C5: for every anchor row i of a valid batch, entries 1..2N-2 of        *)
(* logits row i are the similarities sim(i,j)/temperature of the columns  *)
(* j not in {i, partner(i)}, each once, in increasing order of j.          *)
C5_NegativesInOrder ==
    (ValidCall /\ Ok) =>
        \A i \in 0..(M - 1) :
            LET cols == NegativeColumns(i)
            IN  /\ Len(logits[i + 1]) = 1 + Len(cols)
                /\ Len(cols) = 2 * HalfN - 2
                /\ \A k \in 1..Len(cols) :
                       logits[i + 1][k + 1] =
                           [v |-> RDiv(CosineSimilarity(features[i + 1],
                                                        features[cols[k] + 1]),
                                       temperature),
                            r |-> i, c |-> cols[k]]

(* Row 2 of a batch of six: negatives from columns 0, 1, 3, 4 with        *)
(* different values at both ends.                                          *)
C5_Witness ==
    /\ ValidCall /\ Ok /\ M = 6
    /\ <<logits[3][2].c, logits[3][3].c, logits[3][4].c, logits[3][5].c>> = <<0, 1, 3, 4>>
    /\ logits[3][1].c = 5
    /\ logits[3][2].v # logits[3][5].v

(* ------------------------------- C6 ----------------------------------- *)

(* C6: a call on a batch with N = 1 (two embeddings) fails with an        *)
(* error and returns no logits or labels.  Stated for calls whose         *)
(* temperature is positive and whose embeddings are nonzero, so that      *)
(* N = 1 is the only defect of the input; any exception counts as the     *)
(* failure.                                                                *)
C6_SinglePairFails ==
    (Returned /\ M = 2 /\ RPositive(temperature) /\ NonZeroBatch) => Failed

(* ------------------------------- C7 ----------------------------------- *)

(* C7: a call with temperature <= 0 fails with an error; no logits are    *)
(* produced by dividing by a non-positive temperature.  Stated for calls  *)
(* on a batch of 2N nonzero embeddings with N >= 2, so that the           *)
(* temperature is the only defect of the input; any exception counts as   *)
(* the failure.                                                            *)
C7_BadTemperatureFails ==
    (Returned /\ M % 2 = 0 /\ HalfN >= 2 /\ NonZeroBatch /\ ~RPositive(temperature))
        => Failed

(* ------------------------------- C8 ----------------------------------- *)

(* C8: a call on a batch whose length is odd fails with the malformed-    *)
(* batch error and returns no logits or labels.                            *)
C8_OddLengthFails ==
    (Returned /\ M % 2 = 1) => (Failed /\ status = InvalidBatch)

C8_Witness ==
    /\ Returned /\ M = 5 /\ batch_size = 2
    /\ status = "IndexError" /\ logits = NoValue /\ labels = NoValue

(* ------------------------------- C9 ----------------------------------- *)

C10_SucceedsOnEveryValidBatch ==
    (ValidCall /\ batch_size >= 2 /\ NonZeroBatch) => Ok

(* ------------------------------- C13 ---------------------------------- *)

(* Number of entries of a row of a float mask that are true. *)
TrueCount(row) == Cardinality({k \in 1..Len(row) : row[k] # 0})

C14_Symmetric ==
    Returned =>
        LET sim == SimilarityMatrix(Normalize(features))
        IN  /\ Len(sim) = M
            /\ \A i \in 1..M : \A j \in 1..M : sim[i][j].v = sim[j][i].v

C14_Witness ==
    /\ Ok /\ M = 4
    /\ features[1] = <<1, 0>> /\ features[2] = <<3, 4>>
    /\ SimilarityMatrix(Normalize(features))[2][1].v = <<3, 5>>

(* ------------------------------- C15 ---------------------------------- *)

Two == <<2, 1>>

(* C15: for a fixed embedding batch and a positive temperature T,         *)
(* logits(T) = 2 * logits(2T) entrywise, and the labels and the column    *)
(* every entry comes from are the same under T and 2T.                     *)
C15_TemperatureScaling ==
    (Ok /\ RPositive(temperature)) =>
        \E other \in {InfoNceLoss(batch_size, RMul(Two, temperature), features)} :
            /\ other.status = "ok"
            /\ other.labels = labels
            /\ Len(other.logits) = Len(logits)
            /\ \A i \in 1..Len(logits) :
                   /\ Len(other.logits[i]) = Len(logits[i])
                   /\ \A k \in 1..Len(logits[i]) :
                          /\ logits[i][k].v = RMul(Two, other.logits[i][k].v)
                          /\ logits[i][k].r = other.logits[i][k].r
                          /\ logits[i][k].c = other.logits[i][k].c

C15_Witness ==
    /\ Ok /\ M = 4 /\ temperature = <<1, 2>>
    /\ features[1] = <<3, 4>> /\ features[3] = <<1, 0>>
    /\ logits[1][1].v = <<6, 5>>
    /\ InfoNceLoss(batch_size, <<1, 1>>, features).logits[1][1].v = <<3, 5>>

(* ------------------------------- C16 ---------------------------------- *)

(* The values of a logits row. *)
RowValues(row) == [k \in 1..Len(row) |-> row[k].v]

(* The scorer configured for N = 2 and temperature 1.0 was called on the  *)
(* worked example.                                                         *)
ExampleCall ==
    Returned /\ features = WorkedExample /\ batch_size = 2 /\ temperature = <<1, 1>>

(* C16: for N = 2, embeddings [[1,0],[0,1],[1,0],[0,1]] and temperature   *)
(* 1.0 the scorer returns labels [0,0,0,0] and logits whose every row is  *)
(* the positive 1.0 followed by the two off-sample dot products 0 and 0.   *)
C16_WorkedExample ==
    ExampleCall =>
        /\ status = "ok"
        /\ labels = <<0, 0, 0, 0>>
        /\ Len(logits) = 4
        /\ \A i \in 1..4 : RowValues(logits[i]) = <<<<1, 1>>, <<0, 1>>, <<0, 1>>>>

C16_Witness == ExampleCall /\ Ok /\ logits[1][1] = [v |-> <<1, 1>>, r |-> 0, c |-> 2]

(* ------------------------------- C11 ---------------------------------- *)

(* C11: determinism: two calls on the same object with the same           *)
(* embedding batch and the same temperature, whatever calls come between  *)
(* them, yield identical logits and identical labels (and the same        *)
(* outcome).                                                               *)
C11_Deterministic ==
    (Returned /\ Len(earlier) = 2) =>
        LET e == earlier[1]
        IN  (e.features = features /\ e.temperature = temperature) =>
                /\ e.status = status
                /\ e.logits = logits
                /\ e.labels = labels

(* The batch of four that was scored by the recorded call has been       *)
(* scored again by a later call.                                           *)
C11_Witness ==
    /\ Ok /\ M = 4 /\ Len(earlier) = 2
    /\ earlier[1].features = features
    /\ earlier[1].status = "ok"
    /\ features[1] # features[2]
    /\ logits[1][1].v # logits[1][2].v

(* ------------------------------- C12 ---------------------------------- *)

(* C12: a call has no side effects: it leaves the configured batch size   *)
(* and temperature, the caller's embedding batch and what earlier calls   *)
(* returned unchanged.                                                     *)
C12_NoSideEffects ==
    [][(pc = "idle" /\ pc' = "returned") =>
          /\ batch_size' = batch_size
          /\ temperature' = temperature
          /\ features' = given'
          /\ (earlier # <<>> => earlier'[1] = earlier[1])]_vars

C12_Witness ==
    /\ Returned /\ features = given /\ M = 4 /\ status = "ok"
    /\ Len(earlier) = 2 /\ Len(earlier[1].features) = 2

(* ------------------------------- C17 ---------------------------------- *)

(* A batch has been handed to the scorer by the training loop. *)
BatchScored == tpc # "off" /\ tlog # <<>>

(* C17: the batch handed to the scorer is laid out so that index i and    *)
(* index i+N are the two views of the same sample: rows 0..N-1 are the    *)
(* first views of the N samples drawn, rows N..2N-1 their second views in *)
(* the same sample order, and two different rows are views of the same    *)
(* sample exactly where the label matrix is true.                          *)
C17_BatchLayout ==
    BatchScored =>
        LET n == batch_size
        IN  /\ Len(images) = 2 * n
            /\ Len(features) = 2 * n
            /\ \A i \in 1..n :
                   /\ images[i].view = 1
                   /\ images[i + n].view = 2
                   /\ images[i + n].sample = images[i].sample
            /\ \A i \in 1..n : \A j \in 1..n :
                   (images[i].sample = images[j].sample) => i = j
            /\ \A i \in 1..(2 * n) : \A j \in 1..(2 * n) :
                   (i # j) =>
                       ((LabelMatrix(n)[i][j] # 0) <=> (images[i].sample = images[j].sample))
            /\ \A i \in 1..(2 * n) : features[i] = Encode(images[i])

(* A shuffled batch of two samples: sample 3 first, then sample 1. *)
C17_Witness ==
    /\ BatchScored /\ batch_size = 2 /\ status = "ok"
    /\ images[1] = [sample |-> 3, view |-> 1]
    /\ images[2] = [sample |-> 1, view |-> 1]
    /\ images[3] = [sample |-> 3, view |-> 2]
    /\ images[4] = [sample |-> 1, view |-> 2]

(* ------------------------------- C19 ---------------------------------- *)

(* The length of the warmup according to the comment of line 411. *)
ClaimedWarmup == 10

(* C19: the scheduler is not stepped during a warmup of 10 epochs: after  *)
(* training for E epochs scheduler.step() has been called max(0, E-10)    *)
(* times.                                                                  *)
C19_StepsAfterTenEpochs ==
    (tpc = "finished") =>
        sched_steps = IF epochs > ClaimedWarmup THEN epochs - ClaimedWarmup ELSE 0

(* ------------------------------- C20 ---------------------------------- *)

(* An epoch of at least two batches has just printed its line. *)
EpochPrinted == tpc \in {"epoch", "finished"} /\ printed # <<>> /\ n_batches >= 2

(* C20: the 'Average loss' printed at the end of an epoch is the average  *)
(* of the losses of that epoch's batches.                                  *)
C20_PrintsEpochAverage == EpochPrinted => printed[1] = Frac(loss_sum, n_batches)

(* ------------------------------- C18 ---------------------------------- *)

(* The similarity matrix the call computed from its embeddings (lines     *)
(* 362-365), before the diagonal is discarded.                             *)
CallSimilarity == SimilarityMatrix(Normalize(features))

(* C18: in the similarity matrix of every valid batch the diagonal entry  *)
(* sim(i,i) equals 1 for every index i, including when an embedding is    *)
(* the all-zero vector.                                                    *)
C18_UnitDiagonal ==
    (ValidCall /\ Ok) => \A i \in 1..M : CallSimilarity[i][i].v = <<1, 1>>

(* ------------------------------- C21 ---------------------------------- *)

(* An epoch has run to its end. *)
EpochDone == tpc = "epoch" /\ epoch_counter > 0

(* C21: every batch the training loop passes to info_nce_loss has exactly *)
(* 2*batch_size rows, for every dataset size: an epoch yields             *)
(* floor(dataset_size / batch_size) batches of batch_size samples, the    *)
(* short final batch never reaches the scorer, and the label mask and the *)
(* similarity matrix have the same shape, so the scorer never raises.     *)
C21_FullBatchesOnly ==
    /\ tpc # "raised in info_nce_loss"
    /\ (tpc # "off" /\ pc = "returned") =>
           /\ Len(features) = 2 * batch_size
           /\ Shape(LabelMatrix(batch_size)) = Shape(CallSimilarity)
           /\ status = "ok"
    /\ EpochDone =>
           /\ n_batches = dataset_size \div batch_size
           /\ Cardinality(remaining) = dataset_size % batch_size

(* Three samples in batches of two: one batch ran, one sample was dropped. *)
C21_Witness ==
    /\ EpochDone /\ dataset_size = 3 /\ batch_size = 2
    /\ n_batches = 1 /\ Cardinality(remaining) = 1
    /\ Len(features) = 4 /\ status = "ok"

(* ------------------------------- C22 ---------------------------------- *)

(* The positions of statement x in a log, and the only one if it ran once. *)
Positions(log, x) == {k \in 1..Len(log) : log[k] = x}

Pos(log, x) == CHOOSE k \in Positions(log, x) : TRUE

(* The statements the claim orders, in the order it gives. *)
ClaimedOrder ==
    <<"model", "info_nce_loss", "criterion", "zero_grad", "backward", "step", "update">>

(* A training iteration has run to its end. *)
IterationDone == tpc # "off" /\ n_iter > 0

(* C22: in every training iteration the features are computed and        *)
(* scored (info_nce_loss, then the cross-entropy), then the gradients are *)
(* zeroed, the scaled loss is back-propagated, the optimizer is stepped   *)
(* and the scaler updated; each of these runs exactly once per batch and  *)
(* the gradients are not zeroed between the backward pass and the         *)
(* optimizer step.                                                         *)
C22_IterationOrder ==
    IterationDone =>
        /\ \A k \in 1..Len(ClaimedOrder) : Cardinality(Positions(tlog, ClaimedOrder[k])) = 1
        /\ \A k \in 1..(Len(ClaimedOrder) - 1) :
               Pos(tlog, ClaimedOrder[k]) < Pos(tlog, ClaimedOrder[k + 1])
        /\ \A z \in Positions(tlog, "zero_grad") :
               ~(Pos(tlog, "backward") < z /\ z < Pos(tlog, "step"))
        /\ tlog[Len(tlog)] = "n_iter"

(* The second iteration of an epoch has run. *)
C22_Witness == IterationDone /\ n_batches = 2 /\ status = "ok" /\ Len(tlog) = 10

(* ------------------------------- C23 ---------------------------------- *)

(* train has ended: it returned, or an exception left it. *)
TrainEnded == tpc \in {"finished", "raised UnboundLocalError", "raised in info_nce_loss"}

(* C23: train terminates for every finite loader and epoch count: it runs *)
(* exactly `epochs` epochs and every batch of the loader once per epoch,  *)
(* so that it ends by reporting that training has finished, with n_iter   *)
(* equal to epochs * (batches per epoch).                                 *)
C23_RunsToCompletion ==
    TrainEnded =>
        /\ tpc = "finished"
        /\ epoch_counter = epochs
        /\ n_iter = epochs * (dataset_size \div batch_size)

(* ------------------------------- C24 ---------------------------------- *)

(* The (feature, label) pairs of two tensors of equal length. *)
Paired(f, l) == [i \in 1..Len(f) |-> <<f[i], l[i]>>]

(* The pairs produced by encoding the dataset, in dataset order. *)
EncodedPairs == [k \in 1..Len(dataset) |-> <<Network(k), dataset[k]>>]

(* How often x occurs in a sequence. *)
Occurrences(seq, x) == Cardinality({i \in 1..Len(seq) : seq[i] = x})

FeaturesReturned == fpc = "done"

(* C24: prepare_data_features returns one feature vector per dataset      *)
(* sample (none dropped, also not those of a short final batch), the      *)
(* labels in non-decreasing order, and the multiset of (feature, label)   *)
(* pairs returned is the multiset produced by encoding the dataset: every *)
(* feature stays paired with the label of its own sample.                 *)
C24_SortedFeatures ==
    FeaturesReturned =>
        /\ Len(result.feats) = Len(dataset)
        /\ Len(result.labels) = Len(dataset)
        /\ \A i \in 1..(Len(result.labels) - 1) : result.labels[i] <= result.labels[i + 1]
        /\ \A k \in 1..Len(dataset) :
               Occurrences(Paired(result.feats, result.labels), EncodedPairs[k])
                   = Occurrences(EncodedPairs, EncodedPairs[k])
        /\ \A i \in 1..Len(result.feats) :
               \E k \in 1..Len(dataset) :
                   result.feats[i] = Network(k) /\ result.labels[i] = dataset[k]

(* Three samples labelled 1, 0, 1 in batches of two: the short final      *)
(* batch is kept and the second sample comes first.                       *)
C24_Witness ==
    /\ FeaturesReturned /\ dataset = <<1, 0, 1>> /\ batchsize = 2
    /\ result.labels = <<0, 1, 1>>
    /\ result.feats = <<Network(2), Network(3), Network(1)>>

====
